---------------------------- MODULE Spec2Model ----------------------------
(***************************************************************************)
(* A model of the image-thumbnail Lambda handler of                        *)
(* src/docs/lambda-function.py: one invocation walks the records of an S3  *)
(* event, and for each record fetches the object, transforms it, stores    *)
(* the thumbnail under a derived key and publishes a notification.  The    *)
(* position of the handler (pc) follows the try/except structure of the    *)
(* source; every collaborator call may raise.                              *)
(***************************************************************************)
EXTENDS Naturals, Integers, Sequences, FiniteSets, TLC

(***************************************************************************)
(* Bounds of the model.                                                    *)
(***************************************************************************)
MaxRecords == 2
MaxRuns == 2
MaxKeyLen == 4

VARIABLES
  event,      \* the event of the current invocation
  pc,         \* the position of the handler
  idx,        \* the number of the record being processed (0 before the first)
  trace,      \* the steps of the current invocation, with their outcomes
  written,    \* the destination keys put_object has written in this invocation
  response,   \* what the invocation returned
  dest,       \* the destination bucket: key -> the source key it was made from
  run,        \* the number of invocations started so far
  prev,       \* a summary of the invocation before the current one
  kin,        \* key derivation alone: the source key
  kout,       \* key derivation alone: the derived key
  source,     \* image transform alone: the image as Image.open decoded it
  image       \* image transform alone: the handler's variable image

vars == <<event, pc, idx, trace, written, response, dest, run, prev, kin, kout, source, image>>

\* an image: its size, its mode, and one pixel of it (a channel value c and
\* an alpha value a, 255 when the mode has no alpha)
NoImage == [w |-> 0, h |-> 0, mode |-> "", c |-> 0, a |-> 0]

(***************************************************************************)
(* Strings are sequences of one-character strings, so that the path        *)
(* functions can be computed character by character.                       *)
(***************************************************************************)
KeyChars == {"a", "/", "."}

SeqsUpTo(S, n) == UNION {[1..m -> S] : m \in 0..n}

Max(S) == CHOOSE x \in S : \A y \in S : y <= x

\* str.rfind, 1-based: 0 stands for Python's -1 (not found)
rfind(p, c) ==
  LET I == {i \in 1..Len(p) : p[i] = c}
  IN  IF I = {} THEN 0 ELSE Max(I)

\* a split at the last dot of the last component, leading dot or not
splitext_lastdot(p) ==
  LET sepIndex == rfind(p, "/")
      dotIndex == rfind(p, ".")
  IN  IF dotIndex > sepIndex THEN SubSeq(p, 1, dotIndex - 1) ELSE p

\* os.path.splitext(p)[0]: the extension starts at the last dot of the last
\* path component, unless that dot has only dots before it in the component
splitext(p) ==
  LET sepIndex == rfind(p, "/")
      dotIndex == rfind(p, ".")
  IN  IF /\ dotIndex > sepIndex
         /\ \E j \in (sepIndex + 1)..(dotIndex - 1) : p[j] # "."
      THEN SubSeq(p, 1, dotIndex - 1)
      ELSE p

\* os.path.basename(p): what follows the last slash
basename(p) == SubSeq(p, rfind(p, "/") + 1, Len(p))

Prefix == <<"t","h","u","m","b","n","a","i","l","s","/">>
Suffix == <<"_","t","h","u","m","b",".","j","p","g">>

\* a key that keeps the directory part (basename left out)
thumbnail_key_nobase(object_key) == Prefix \o splitext(object_key) \o Suffix

\* a key that carries the number of the invocation that wrote it
thumbnail_key_stamped(object_key) ==
  Prefix \o basename(splitext(object_key)) \o <<ToString(run)>> \o Suffix

\* filename_without_ext = os.path.splitext(object_key)[0]
\* thumbnail_key = f"thumbnails/{os.path.basename(filename_without_ext)}_thumb.jpg"
thumbnail_key(object_key) ==
  Prefix \o basename(splitext(object_key)) \o Suffix


(***************************************************************************)
(* Events.  A record is a mapping with the s3 fields ("ok"), a mapping     *)
(* without them ("nofields") or no mapping at all ("notmapping"); an event *)
(* is a mapping with a Records list, a mapping without one, or no mapping. *)
(***************************************************************************)
EventKeys == { <<"a","/","p",".","x">>, <<"b","/","p",".","y">>, <<"q">> }

RecordValues ==
  [kind : {"ok"}, key : EventKeys]
    \cup {[kind |-> "nofields", key |-> <<>>], [kind |-> "notmapping", key |-> <<>>]}

Events ==
  {[kind |-> "records", Records |-> rs] : rs \in SeqsUpTo(RecordValues, MaxRecords)}
    \cup {[kind |-> "norecords", Records |-> <<>>],
          [kind |-> "notmapping", Records |-> <<>>]}

NoEvent == [kind |-> "none", Records |-> <<>>]

\* event['Records']: a missing field raises KeyError
index_Records(e) ==
  IF e.kind = "records" THEN [ok |-> TRUE, value |-> e.Records]
  ELSE [ok |-> FALSE, value |-> <<>>]

\* a lookup that rejects an empty list of records
get_Records_nonempty(e) ==
  IF e.kind = "records" /\ e.Records # <<>> THEN [ok |-> TRUE, value |-> e.Records]
  ELSE IF e.kind = "norecords" THEN [ok |-> TRUE, value |-> <<>>]
  ELSE [ok |-> FALSE, value |-> <<>>]

\* event.get('Records', []): raises only when the event has no get
get_Records(e) ==
  IF e.kind = "notmapping" THEN [ok |-> FALSE, value |-> <<>>]
  ELSE IF e.kind = "records" THEN [ok |-> TRUE, value |-> e.Records]
  ELSE [ok |-> TRUE, value |-> <<>>]

Records == get_Records(event).value
N == Len(Records)

\* record['s3']['bucket']['name'], record['s3']['object']['key']
has_fields(record) == record.kind = "ok"

\* record.get('s3', {}): any mapping answers, with or without the fields
has_get(record) == record.kind # "notmapping"

(***************************************************************************)
(* Where an exception raised at a position of the handler is caught.       *)
(***************************************************************************)
InRecordTry == {"fields", "get_object", "transform", "put_object", "publish_success"}
InMainTry == {"records", "format_error", "publish_error", "respond"}

\* the handler without the try around the fatal publish
Catch_unguarded(at) ==
  IF at \in InRecordTry THEN "except"
  ELSE IF at \in InMainTry THEN "fatal"
  ELSE "escaped"

\* a handler that goes on to the upload when the transform raises
Catch_skiptransform(at) ==
  IF at = "transform" THEN "put_object"
  ELSE IF at \in InRecordTry THEN "except"
  ELSE IF at \in InMainTry THEN "fatal"
  ELSE IF at = "publish_fatal" THEN "respond500"
  ELSE "escaped"

Catch(at) ==
  IF at \in InRecordTry THEN "except"
  ELSE IF at \in InMainTry THEN "fatal"
  ELSE IF at = "publish_fatal" THEN "respond500"
  ELSE "escaped"

After(at, ok, next) == IF ok THEN next ELSE Catch(at)

Step(op, rec, arg, ok) == [op |-> op, rec |-> rec, arg |-> arg, ok |-> ok]

(***************************************************************************)
(* Responses.                                                              *)
(***************************************************************************)
NoResponse ==
  [statusCode |-> 0, body |-> [type |-> "none", key |-> "", records_processed |-> 0]]

Stored(i) ==
  \E n \in 1..Len(trace) :
    trace[n].op = "put_object" /\ trace[n].rec = i /\ trace[n].ok

\* a response that counts the thumbnails stored
success_response_stored ==
  [statusCode |-> 200,
   body |-> [type |-> "object", key |-> "message",
             records_processed |-> Cardinality({i \in 1..N : Stored(i)})]]

\* {'statusCode': 200, 'body': json.dumps({'message': ..., 'records_processed': len(...)})}
success_response ==
  [statusCode |-> 200,
   body |-> [type |-> "object", key |-> "message", records_processed |-> N]]

\* {'statusCode': 500, 'body': json.dumps({'error': ..., 'message': ...})}
error_response ==
  [statusCode |-> 500,
   body |-> [type |-> "object", key |-> "error", records_processed |-> 0]]

NoPrev == [valid |-> FALSE, callsOk |-> FALSE, written |-> {}, keys |-> {}]

IsCall(s) == s.op \in {"get_object", "transform", "put_object", "publish"}
CallsOk == \A n \in 1..Len(trace) : IsCall(trace[n]) => trace[n].ok

(***************************************************************************)
(* The state after the module is loaded: clients built, nothing invoked.   *)
(***************************************************************************)
Init ==
  /\ event = NoEvent
  /\ pc = "idle"
  /\ idx = 0
  /\ trace = <<>>
  /\ written = {}
  /\ response = NoResponse
  /\ dest = <<>>
  /\ run = 0
  /\ prev = NoPrev
  /\ kin = <<>>
  /\ kout = <<>>
  /\ source = NoImage
  /\ image = NoImage

(***************************************************************************)
(* The steps of lambda_handler.                                            *)
(***************************************************************************)
\* the platform calls lambda_handler(event, context)
Invoke(e) ==
  /\ pc = "idle"
  /\ run < MaxRuns
  /\ event' = e
  /\ pc' = "start"
  /\ run' = run + 1
  /\ UNCHANGED <<idx, trace, written, response, dest, prev, kin, kout, source, image>>

\* for record in event.get('Records', []): the list is looked up
IterStart ==
  /\ pc = "start"
  /\ LET ok == get_Records(event).ok
     IN  /\ trace' = Append(trace, Step("records", 0, "", ok))
         /\ pc' = After("records", ok, "loop")
  /\ UNCHANGED <<event, idx, written, response, dest, run, prev, kin, kout, source, image>>

\* a loop over reversed(Records): the last record is taken first
NextRecord_reversed ==
  /\ pc = "loop"
  /\ N > 0
  /\ idx # 1
  /\ LET i == IF idx = 0 THEN N ELSE idx - 1
         ok == has_fields(Records[i])
     IN  /\ idx' = i
         /\ trace' = Append(trace, Step("fields", i, "", ok))
         /\ pc' = After("fields", ok, "get_object")
  /\ UNCHANGED <<event, written, response, dest, run, prev, kin, kout, source, image>>

\* the next record is taken and its bucket name and object key are read
NextRecord ==
  /\ pc = "loop"
  /\ idx < N
  /\ idx' = idx + 1
  /\ LET ok == has_fields(Records[idx + 1])
     IN  /\ trace' = Append(trace, Step("fields", idx + 1, "", ok))
         /\ pc' = After("fields", ok, "get_object")
  /\ UNCHANGED <<event, written, response, dest, run, prev, kin, kout, source, image>>

\* s3_client.get_object(Bucket=bucket_name, Key=object_key) and the read
GetObject ==
  /\ pc = "get_object"
  /\ \E ok \in BOOLEAN :
       /\ trace' = Append(trace, Step("get_object", idx, "", ok))
       /\ pc' = After("get_object", ok, "transform")
  /\ UNCHANGED <<event, idx, written, response, dest, run, prev, kin, kout, source, image>>

\* Image.open, the mode conversion, image.thumbnail and image.save
Transform ==
  /\ pc = "transform"
  /\ \E ok \in BOOLEAN :
       /\ trace' = Append(trace, Step("transform", idx, "", ok))
       /\ pc' = After("transform", ok, "put_object")
  /\ UNCHANGED <<event, idx, written, response, dest, run, prev, kin, kout, source, image>>

\* an upload that leaves an object alone when its key is already there
PutObject_keepfirst ==
  /\ pc = "put_object"
  /\ LET object_key == Records[idx].key
         key == thumbnail_key(object_key)
     IN  \E ok \in BOOLEAN :
           /\ trace' = Append(trace, Step("put_object", idx, "", ok))
           /\ pc' = After("put_object", ok, "publish_success")
           /\ written' = IF ok THEN written \cup {key} ELSE written
           /\ dest' = IF ok /\ key \notin DOMAIN dest
                      THEN [k \in DOMAIN dest \cup {key} |->
                              IF k = key THEN object_key ELSE dest[k]]
                      ELSE dest
  /\ UNCHANGED <<event, idx, response, run, prev, kin, kout, source, image>>

\* the key is derived and s3_client.put_object writes the thumbnail
PutObject ==
  /\ pc = "put_object"
  /\ LET object_key == Records[idx].key
         key == thumbnail_key(object_key)
     IN  \E ok \in BOOLEAN :
           /\ trace' = Append(trace, Step("put_object", idx, "", ok))
           /\ pc' = After("put_object", ok, "publish_success")
           /\ written' = IF ok THEN written \cup {key} ELSE written
           /\ dest' = IF ok
                      THEN [k \in DOMAIN dest \cup {key} |->
                              IF k = key THEN object_key ELSE dest[k]]
                      ELSE dest
  /\ UNCHANGED <<event, idx, response, run, prev, kin, kout, source, image>>

\* sns_client.publish of the success message; then the next record
PublishSuccess ==
  /\ pc = "publish_success"
  /\ \E ok \in BOOLEAN :
       /\ trace' = Append(trace, Step("publish", idx, "success", ok))
       /\ pc' = After("publish_success", ok, "loop")
  /\ UNCHANGED <<event, idx, written, response, dest, run, prev, kin, kout, source, image>>

\* except Exception as record_error: the error message is formatted with
\* record.get('s3', {})...
HandleRecordError ==
  /\ pc = "except"
  /\ LET ok == has_get(Records[idx])
     IN  /\ trace' = Append(trace, Step("format_error", idx, "", ok))
         /\ pc' = After("format_error", ok, "publish_error")
  /\ UNCHANGED <<event, idx, written, response, dest, run, prev, kin, kout, source, image>>

\* sns_client.publish of the error message; then continue
PublishError ==
  /\ pc = "publish_error"
  /\ \E ok \in BOOLEAN :
       /\ trace' = Append(trace, Step("publish", idx, "error", ok))
       /\ pc' = After("publish_error", ok, "loop")
  /\ UNCHANGED <<event, idx, written, response, dest, run, prev, kin, kout, source, image>>

\* the loop is over: the success response is built and returned
LoopEnd ==
  /\ pc = "loop"
  /\ idx = N
  /\ LET ok == get_Records(event).ok
     IN  /\ response' = IF ok THEN success_response ELSE response
         /\ pc' = After("respond", ok, "done")
  /\ UNCHANGED <<event, idx, trace, written, dest, run, prev, kin, kout, source, image>>

\* except Exception as main_error: sns_client.publish of the critical
\* message, inside its own try
PublishFatal ==
  /\ pc = "fatal"
  /\ \E ok \in BOOLEAN :
       /\ trace' = Append(trace, Step("publish", 0, "fatal", ok))
       /\ pc' = After("publish_fatal", ok, "respond500")
  /\ UNCHANGED <<event, idx, written, response, dest, run, prev, kin, kout, source, image>>

\* the error response is returned
ErrorResponse ==
  /\ pc = "respond500"
  /\ response' = error_response
  /\ pc' = "done"
  /\ UNCHANGED <<event, idx, trace, written, dest, run, prev, kin, kout, source, image>>

\* the platform delivers the same event again after the handler returned
Redeliver ==
  /\ pc = "done"
  /\ run < MaxRuns
  /\ prev' = [valid |-> TRUE, callsOk |-> CallsOk,
              written |-> written, keys |-> DOMAIN dest]
  /\ pc' = "start"
  /\ run' = run + 1
  /\ idx' = 0
  /\ trace' = <<>>
  /\ written' = {}
  /\ response' = NoResponse
  /\ UNCHANGED <<event, dest, kin, kout, source, image>>

HandlerStep ==
  \/ IterStart
  \/ NextRecord
  \/ GetObject
  \/ Transform
  \/ PutObject
  \/ PublishSuccess
  \/ HandleRecordError
  \/ PublishError
  \/ LoopEnd
  \/ PublishFatal
  \/ ErrorResponse

Next ==
  \/ \E e \in Events : Invoke(e)
  \/ HandlerStep
  \/ Redeliver

Spec == Init /\ [][Next]_vars

(***************************************************************************)
(* What the trace of an invocation says about a record.                    *)
(***************************************************************************)
Steps == 1..Len(trace)
Done == pc = "done"

Begun(i) == \E n \in Steps : trace[n].rec = i

PublishAttempts(i, kind) ==
  {n \in Steps : trace[n].op = "publish" /\ trace[n].rec = i /\ trace[n].arg = kind}

Published(i, kind) == \E n \in PublishAttempts(i, kind) : trace[n].ok

FatalAttempts == Cardinality(PublishAttempts(0, "fatal"))

\* a step of the record's own processing failed (not its error notification)
Failed(i) ==
  \E n \in Steps :
    /\ trace[n].rec = i
    /\ ~trace[n].ok
    /\ \/ trace[n].op \in {"fields", "get_object", "transform", "put_object"}
       \/ trace[n].op = "publish" /\ trace[n].arg = "success"

GetFailed(i) ==
  \E n \in Steps : trace[n].op = "get_object" /\ trace[n].rec = i /\ ~trace[n].ok

CollaboratorCalls ==
  {n \in Steps : trace[n].op \in {"get_object", "put_object", "publish"}}

PerRecordCalls == {n \in CollaboratorCalls : trace[n].rec >= 1}

Success(i) == Stored(i) /\ Published(i, "success")
RecordFailure(i) == Published(i, "error")

AllRecords == 1..Len(event.Records)

(***************************************************************************)
(* C1: when a step of record i fails (field read, get_object, transform,   *)
(* put_object or the success publish), the handler attempts the error      *)
(* notification of record i, goes on to every later record, and the batch  *)
(* is not aborted: the invocation ends with status 200.                    *)
(***************************************************************************)
C1_FailureNeverAbortsBatch ==
  Done =>
    \A i \in AllRecords :
      Failed(i) =>
        /\ PublishAttempts(i, "error") # {}
        /\ \A j \in AllRecords : j > i => Begun(j)
        /\ response.statusCode = 200

(***************************************************************************)
(* C2: when the invocation has returned, either every record has exactly   *)
(* one outcome (Success: stored and reported as success; RecordFailure:    *)
(* reported as failure) and there is no invocation failure, or the         *)
(* invocation failed with one fatal notification attempt and no per-record *)
(* collaborator call was made.                                             *)
(***************************************************************************)
C2_ExactlyOneOutcome ==
  Done =>
    \/ /\ FatalAttempts = 0
       /\ response.statusCode = 200
       /\ \A i \in AllRecords : Success(i) # RecordFailure(i)
    \/ /\ FatalAttempts = 1
       /\ response.statusCode = 500
       /\ PerRecordCalls = {}

(***************************************************************************)
(* C3: a failing publish is swallowed: a record whose thumbnail was stored *)
(* gets no error notification, every record after a failing per-record     *)
(* publish is still processed, and status 500 is returned only when a step *)
(* other than a publish caused it.                                         *)
(***************************************************************************)
C3_PublishFailureSwallowed ==
  Done =>
    /\ \A i \in AllRecords : Stored(i) => PublishAttempts(i, "error") = {}
    /\ \A n \in Steps :
         (trace[n].op = "publish" /\ ~trace[n].ok /\ trace[n].rec >= 1) =>
           \A j \in AllRecords : j > trace[n].rec => Begun(j)
    /\ response.statusCode = 500 =>
         \E n \in Steps :
           trace[n].op \in {"records", "format_error"} /\ ~trace[n].ok

(***************************************************************************)
(* C4: the handler never lets an exception escape, can always take its     *)
(* next step until it has returned, takes at most 7 steps per record plus  *)
(* 2, and returns status 200 or 500 with a JSON object as body.            *)
(***************************************************************************)
C4_AlwaysReturnsResponse ==
  /\ pc # "escaped"
  /\ Len(trace) <= 7 * Len(event.Records) + 2
  /\ pc \notin {"idle", "done"} => ENABLED HandlerStep
  /\ Done =>
       /\ response.statusCode \in {200, 500}
       /\ response.body.type = "object"

C4_Witness ==
  /\ Done
  /\ event.kind = "notmapping"
  /\ \E n \in Steps :
       trace[n].op = "publish" /\ trace[n].arg = "fatal" /\ ~trace[n].ok

(***************************************************************************)
(* C5: when the record loop has completed (every record reached its        *)
(* success or error notification), the response has status 200 and         *)
(* records_processed equal to the number of records, failed records        *)
(* included; a record whose get_object failed has its error notification.  *)
(* When get_object failures are the only failures of an invocation, the    *)
(* loop does complete, and no thumbnail is stored for the failed records.  *)
(***************************************************************************)
LoopCompleted ==
  /\ Done
  /\ event.kind # "notmapping"
  /\ \A i \in AllRecords : Published(i, "success") \/ Published(i, "error")

OnlyGetObjectFailed ==
  \A n \in Steps : ~trace[n].ok => trace[n].op = "get_object"

C5_CompletedLoopIs200 ==
  /\ LoopCompleted =>
       /\ response.statusCode = 200
       /\ response.body.records_processed = Len(event.Records)
       /\ \A i \in AllRecords : GetFailed(i) => Published(i, "error")
  /\ (Done /\ OnlyGetObjectFailed) =>
       /\ LoopCompleted
       /\ \A i \in AllRecords : GetFailed(i) => ~Stored(i)

C5_Witness ==
  /\ LoopCompleted
  /\ response.statusCode = 200
  /\ Len(event.Records) = 2
  /\ GetFailed(1)
  /\ Success(2)

(***************************************************************************)
(* C6 as stated: an event without a Records field gets status 500 with the *)
(* error body and one attempt to publish the fatal notification.           *)
(***************************************************************************)
C6_MissingRecordsIs500 ==
  (Done /\ event.kind = "norecords") =>
    /\ response.statusCode = 500
    /\ response.body.key = "error"
    /\ FatalAttempts = 1

(***************************************************************************)
(* C6 amended: an event that is a mapping without a Records field gets     *)
(* status 200 with records_processed 0 and no collaborator call; an event  *)
(* that is no mapping gets status 500 with the error body and exactly one  *)
(* attempt to publish the fatal notification.                              *)
(***************************************************************************)
C6_MissingRecordsIs200 ==
  Done =>
    /\ event.kind = "norecords" =>
         /\ response.statusCode = 200
         /\ response.body.key = "message"
         /\ response.body.records_processed = 0
         /\ CollaboratorCalls = {}
    /\ event.kind = "notmapping" =>
         /\ response.statusCode = 500
         /\ response.body.key = "error"
         /\ FatalAttempts = 1
         /\ PerRecordCalls = {}

C6_Witness == Done /\ event.kind = "norecords" /\ response.statusCode = 200

(***************************************************************************)
(* C7: an event whose Records list is empty gets status 200 with           *)
(* records_processed 0, and no get_object, put_object or publish is made.  *)
(***************************************************************************)
C7_EmptyRecords ==
  (Done /\ event.kind = "records" /\ event.Records = <<>>) =>
    /\ response.statusCode = 200
    /\ response.body.records_processed = 0
    /\ CollaboratorCalls = {}

C7_Witness ==
  Done /\ event.kind = "records" /\ event.Records = <<>> /\ run = 1

(***************************************************************************)
(* C8: when the invocation has returned, every record that was processed   *)
(* (and is a mapping, so that it can be reported on) has had exactly one   *)
(* notification sent for it, of the success kind if its thumbnail was      *)
(* stored and of the error kind otherwise, and there is one fatal          *)
(* notification if and only if the status is 500.                          *)
(***************************************************************************)
C8_OneNotificationPerOutcome ==
  Done =>
    /\ \A i \in AllRecords :
         (Begun(i) /\ has_get(event.Records[i])) =>
           /\ Cardinality(PublishAttempts(i, "success") \cup PublishAttempts(i, "error")) = 1
           /\ Stored(i) <=> PublishAttempts(i, "success") # {}
    /\ FatalAttempts = (IF response.statusCode = 500 THEN 1 ELSE 0)

(***************************************************************************)
(* C9: when the same event is delivered again and every collaborator call  *)
(* of both invocations succeeds, the second invocation writes exactly the  *)
(* destination keys the first wrote, and the destination bucket holds the  *)
(* same set of keys as after the first.                                    *)
(***************************************************************************)
C9_RedeliveryIdempotent ==
  (Done /\ prev.valid /\ prev.callsOk /\ CallsOk) =>
    /\ written = prev.written
    /\ DOMAIN dest = prev.keys

C9_Witness ==
  /\ Done
  /\ prev.valid /\ prev.callsOk /\ CallsOk
  /\ Cardinality(written) = 2
  /\ DOMAIN dest = prev.keys

(***************************************************************************)
(* The key derivation alone, over every key of at most MaxKeyLen           *)
(* characters and the key source/photo.png.                                *)
(***************************************************************************)
ExampleKey == <<"s","o","u","r","c","e","/","p","h","o","t","o",".","p","n","g">>

DotKey == <<".","p","n","g">>

Keys == (SeqsUpTo(KeyChars, MaxKeyLen) \ {<<>>}) \cup {ExampleKey, DotKey}

KeyInit ==
  /\ event = NoEvent
  /\ pc = "derive"
  /\ idx = 0
  /\ trace = <<>>
  /\ written = {}
  /\ response = NoResponse
  /\ dest = <<>>
  /\ run = 0
  /\ prev = NoPrev
  /\ kin \in Keys
  /\ kout = <<>>
  /\ source = NoImage
  /\ image = NoImage

\* the two lines that derive thumbnail_key from object_key
DeriveKey ==
  /\ pc = "derive"
  /\ kout' = thumbnail_key(kin)
  /\ pc' = "derived"
  /\ UNCHANGED <<event, idx, trace, written, response, dest, run, prev, kin,
               source, image>>

KeyNext == DeriveKey

KeySpec == KeyInit /\ [][KeyNext]_vars

(***************************************************************************)
(* C10: the destination key is thumbnails/{base}_thumb.jpg, where base is  *)
(* the final path component of the source key (what follows its last       *)
(* slash) with its extension stripped (the last dot of the component and   *)
(* what follows it, a dot with only dots before it being no extension);    *)
(* two keys with the same final component get the same destination key;    *)
(* source/photo.png gets thumbnails/photo_thumb.jpg.                       *)
(***************************************************************************)
FinalComponent(k) ==
  CHOOSE s \in {SubSeq(k, i, Len(k)) : i \in 1..(Len(k) + 1)} :
    /\ \A j \in 1..Len(s) : s[j] # "/"
    /\ Len(s) < Len(k) => k[Len(k) - Len(s)] = "/"

StripExtension(name) ==
  LET dots == {i \in 1..Len(name) :
                 name[i] = "." /\ \E j \in 1..(i - 1) : name[j] # "."}
  IN  IF dots = {} THEN name ELSE SubSeq(name, 1, Max(dots) - 1)

ExampleThumb ==
  <<"t","h","u","m","b","n","a","i","l","s","/",
    "p","h","o","t","o","_","t","h","u","m","b",".","j","p","g">>

C10_DestinationKey ==
  pc = "derived" =>
    /\ kout = Prefix \o StripExtension(FinalComponent(kin)) \o Suffix
    /\ \A k \in Keys :
         FinalComponent(k) = FinalComponent(kin) => thumbnail_key(k) = kout
    /\ kin = ExampleKey => kout = ExampleThumb

C10_Witness == pc = "derived" /\ kin = ExampleKey /\ kout = ExampleThumb

(***************************************************************************)
(* C11 as stated: a source key with no extension (no dot in its final      *)
(* component) keeps its base name unchanged, and a source key that is only *)
(* an extension (a dot followed by other characters, such as .png) yields  *)
(* an empty base name: the destination key thumbnails/_thumb.jpg.          *)
(***************************************************************************)
NoDot(name) == \A j \in 1..Len(name) : name[j] # "."

OnlyExtension(k) ==
  /\ Len(k) >= 2
  /\ k[1] = "."
  /\ \A j \in 2..Len(k) : k[j] \notin {".", "/"}

C11_BareExtensionEmptyBase ==
  pc = "derived" =>
    /\ NoDot(FinalComponent(kin)) => kout = Prefix \o FinalComponent(kin) \o Suffix
    /\ OnlyExtension(kin) => kout = Prefix \o Suffix

(***************************************************************************)
(* C11 amended: a source key with no extension keeps its base name         *)
(* unchanged, and a source key that is only an extension keeps it too: the *)
(* leading dot starts no extension, the base name is the whole key, and    *)
(* .png gets the destination key thumbnails/.png_thumb.jpg.                *)
(***************************************************************************)
DotThumb ==
  <<"t","h","u","m","b","n","a","i","l","s","/",
    ".","p","n","g","_","t","h","u","m","b",".","j","p","g">>

C11_BareExtensionKept ==
  pc = "derived" =>
    /\ NoDot(FinalComponent(kin)) => kout = Prefix \o FinalComponent(kin) \o Suffix
    /\ OnlyExtension(kin) => kout = Prefix \o kin \o Suffix
    /\ kin = DotKey => kout = DotThumb

C11_Witness == pc = "derived" /\ kin = DotKey /\ kout = DotThumb

(***************************************************************************)
(* C12: records are processed one at a time in event order: of any two     *)
(* collaborator calls made for records (get_object, put_object, publish),  *)
(* the earlier call belongs to the same or an earlier record, and the      *)
(* record being processed is the one of the latest step.                   *)
(***************************************************************************)
C12_RecordsInOrder ==
  /\ \A m, n \in PerRecordCalls : m < n => trace[m].rec <= trace[n].rec
  /\ \A n \in Steps : trace[n].rec >= 1 => trace[n].rec <= idx

C12_Witness ==
  /\ Done
  /\ Len(event.Records) = 2
  /\ \E m, n \in PerRecordCalls :
       m < n /\ trace[m].rec = 1 /\ trace[n].rec = 2 /\ ~trace[m].ok

(***************************************************************************)
(* The image transform alone: the mode conversion and Image.thumbnail, on  *)
(* every opaque image of at most MaxDim x MaxDim pixels, some larger       *)
(* ones, and small images of every mode and pixel value.                   *)
(***************************************************************************)
MaxDim == 220

THUMBNAIL_SIZE == <<200, 200>>

Abs(x) == IF x < 0 THEN 0 - x ELSE x

AlphaModes == {"RGBA", "LA", "P"}
OpaqueModes == {"RGB", "L"}
Levels == {0, 128, 255}

LargeSizes == {<<1, 401>>, <<401, 1>>, <<1000, 3>>, <<4000, 3000>>, <<3000, 4000>>}

Images ==
  [w : 1..MaxDim, h : 1..MaxDim, mode : {"RGB"}, c : {0}, a : {255}]
    \cup {[w |-> sz[1], h |-> sz[2], mode |-> "RGB", c |-> 0, a |-> 255] :
            sz \in LargeSizes}
    \cup [w : {1, 300}, h : {2}, mode : {"RGBA", "LA"}, c : Levels, a : Levels]
    \cup [w : {1, 300}, h : {2}, mode : {"P"}, c : Levels, a : {0, 255}]
    \cup [w : {1, 300}, h : {2}, mode : OpaqueModes, c : Levels, a : {255}]

\* the paste of one pixel through an L mask: Pillow's 8-bit blend
blend(under, over, mask) ==
  LET tmp == mask * over + (255 - mask) * under + 128
  IN  ((tmp \div 256) + tmp) \div 256

\* if image.mode in ('RGBA', 'LA', 'P'): a white RGB background of the same
\* size; P is converted to RGBA; the image is pasted, through its alpha band
\* when its mode is RGBA and without a mask otherwise
normalize(im) ==
  IF im.mode \in AlphaModes
  THEN LET converted == IF im.mode = "P" THEN [im EXCEPT !.mode = "RGBA"] ELSE im
           pasted == IF converted.mode = "RGBA"
                     THEN blend(255, converted.c, converted.a)
                     ELSE converted.c
       IN  [w |-> im.w, h |-> im.h, mode |-> "RGB", c |-> pasted, a |-> 255]
  ELSE im

\* round_aspect of Image.thumbnail: of floor and ceil of the exact scale the
\* one whose key is smaller (floor on a tie), and at least 1
round_aspect(fl, ce, keyfl, keyce) ==
  LET best == IF keyfl <= keyce THEN fl ELSE ce
  IN  IF best < 1 THEN 1 ELSE best

Floor(num, den) == num \div den
Ceil(num, den) == IF num % den = 0 THEN num \div den ELSE (num \div den) + 1

\* image.resize(THUMBNAIL_SIZE): the box itself, whatever the image
thumbnail_stretch(im) ==
  [im EXCEPT !.w = THUMBNAIL_SIZE[1], !.h = THUMBNAIL_SIZE[2]]

\* image.thumbnail(THUMBNAIL_SIZE, ...): nothing when the image fits the
\* box; otherwise the side that limits is set to the box and the other is
\* round_aspect of the exact scale (the keys compare |w/h - n/y| and
\* |w/h - x/n| as exact fractions, cross-multiplied)
thumbnail(im) ==
  LET x == THUMBNAIL_SIZE[1]
      y == THUMBNAIL_SIZE[2]
  IN  IF x >= im.w /\ y >= im.h THEN im
      ELSE IF x * im.h >= im.w * y
      THEN LET fl == Floor(y * im.w, im.h)
               ce == Ceil(y * im.w, im.h)
           IN  [im EXCEPT !.w = round_aspect(fl, ce,
                                             Abs(im.w * y - fl * im.h),
                                             Abs(im.w * y - ce * im.h)),
                          !.h = y]
      ELSE LET fl == Floor(x * im.h, im.w)
               ce == Ceil(x * im.h, im.w)
           IN  [im EXCEPT !.w = x,
                          !.h = round_aspect(fl, ce,
                                             IF fl = 0 THEN 0
                                             ELSE Abs(im.w * fl - x * im.h) * ce,
                                             Abs(im.w * ce - x * im.h) * fl)]

ImageInit ==
  /\ event = NoEvent
  /\ pc = "opened"
  /\ idx = 0
  /\ trace = <<>>
  /\ written = {}
  /\ response = NoResponse
  /\ dest = <<>>
  /\ run = 0
  /\ prev = NoPrev
  /\ kin = <<>>
  /\ kout = <<>>
  /\ source \in Images
  /\ image = source

\* the mode conversion of the opened image
Normalize ==
  /\ pc = "opened"
  /\ image' = normalize(image)
  /\ pc' = "normalized"
  /\ UNCHANGED <<event, idx, trace, written, response, dest, run, prev, kin, kout,
                 source>>

\* image.thumbnail(THUMBNAIL_SIZE, Image.Resampling.LANCZOS)
Thumbnail ==
  /\ pc = "normalized"
  /\ image' = thumbnail(image)
  /\ pc' = "thumbnailed"
  /\ UNCHANGED <<event, idx, trace, written, response, dest, run, prev, kin, kout,
                 source>>

ImageNext == Normalize \/ Thumbnail

ImageSpec == ImageInit /\ [][ImageNext]_vars

(***************************************************************************)
(* C13: the thumbnail of an image of at least 1 x 1 pixels is at most      *)
(* 200 x 200 and at least 1 x 1; an image within 200 x 200 keeps its size; *)
(* a larger one has one side of exactly 200 and the other within one pixel *)
(* of the exact scale of the source (aspect ratio kept within rounding).   *)
(***************************************************************************)
C13_ThumbnailWithinBox ==
  pc = "thumbnailed" =>
    /\ image.w >= 1 /\ image.w <= 200
    /\ image.h >= 1 /\ image.h <= 200
    /\ (source.w <= 200 /\ source.h <= 200) =>
         (image.w = source.w /\ image.h = source.h)
    /\ (source.w > 200 \/ source.h > 200) =>
         \/ /\ image.h = 200
            /\ source.w <= source.h
            /\ Abs(image.w * source.h - 200 * source.w) < source.h
         \/ /\ image.w = 200
            /\ source.w >= source.h
            /\ Abs(image.h * source.w - 200 * source.h) < source.w

C13_Witness ==
  /\ pc = "thumbnailed"
  /\ source.w = 4000 /\ source.h = 3000
  /\ image.w = 200 /\ image.h = 150

(***************************************************************************)
(* C14: after the mode conversion an image of mode RGBA, LA or P is an RGB *)
(* image without alpha in which a fully transparent pixel of the source is *)
(* white and a fully opaque one keeps its value; an image of an opaque     *)
(* mode is unchanged.                                                      *)
(***************************************************************************)
C14_TransparentIsWhite ==
  pc = "normalized" =>
    /\ source.mode \in AlphaModes =>
         /\ image.mode = "RGB"
         /\ image.a = 255
         /\ image.w = source.w /\ image.h = source.h
         /\ source.a = 0 => image.c = 255
         /\ source.a = 255 => image.c = source.c
    /\ source.mode \in OpaqueModes => image = source

(***************************************************************************)
(* C15: each record goes Received, Fetched, Transformed, Stored, Notified  *)
(* in that order: get_object follows the reading of the record's fields,   *)
(* the transform a successful get_object, put_object a successful          *)
(* transform, and the success publish a successful put_object, each at     *)
(* most once per record; a record whose get_object or transform failed has *)
(* no put_object call.                                                     *)
(***************************************************************************)
StepOk(n, op, i) == trace[n].op = op /\ trace[n].rec = i /\ trace[n].ok

Follows(n, op) ==
  \E m \in Steps : m < n /\ StepOk(m, op, trace[n].rec)

C15_RecordStateMachine ==
  /\ \A n \in Steps :
       /\ trace[n].op = "get_object" => Follows(n, "fields")
       /\ trace[n].op = "transform" => Follows(n, "get_object")
       /\ trace[n].op = "put_object" => Follows(n, "transform")
       /\ (trace[n].op = "publish" /\ trace[n].arg = "success") =>
            Follows(n, "put_object")
       /\ (trace[n].op \in {"get_object", "transform"} /\ ~trace[n].ok) =>
            \A m \in Steps :
              ~(trace[m].op = "put_object" /\ trace[m].rec = trace[n].rec)
  /\ \A m, n \in Steps :
       (/\ m # n
        /\ trace[m].rec = trace[n].rec
        /\ trace[m].op = trace[n].op
        /\ trace[m].arg = trace[n].arg) => trace[m].rec = 0

C15_Witness ==
  /\ Done
  /\ Len(event.Records) = 2
  /\ \E n \in Steps : trace[n].op = "transform" /\ trace[n].rec = 1 /\ ~trace[n].ok
  /\ Success(2)

(***************************************************************************)
(* C16: the handler returns status 500 exactly when a step outside the     *)
(* processing of any record failed (here: the lookup of the Records list); *)
(* with status 500 it has made exactly one attempt to publish the fatal    *)
(* notification, with status 200 none.                                     *)
(***************************************************************************)
FailedOutsideRecords ==
  \E n \in Steps : trace[n].rec = 0 /\ trace[n].op # "publish" /\ ~trace[n].ok

C16_500OnlyOutsideRecords ==
  Done =>
    /\ response.statusCode = 500 <=> FailedOutsideRecords
    /\ response.statusCode = 500 => FatalAttempts = 1
    /\ response.statusCode = 200 => FatalAttempts = 0

(***************************************************************************)
(* The handler of src/lamcode.py: one try around the whole loop, and an    *)
(* except block that publishes an error notification and returns 500.      *)
(***************************************************************************)
\* where an exception raised at a position of this handler is caught
LamCatch(at) ==
  IF at \in {"records", "fields", "get_object", "transform", "put_object",
             "publish_success"}
  THEN "lam_except"
  ELSE "escaped"

LamAfter(at, ok, next) == IF ok THEN next ELSE LamCatch(at)

\* event['Records']: anything but a mapping with the field raises
lam_Records(e) ==
  IF e.kind = "records" THEN [ok |-> TRUE, value |-> e.Records]
  ELSE [ok |-> FALSE, value |-> <<>>]

\* thumbnail_key = f"thumbnails/{os.path.splitext(key)[0]}_thumb.jpg"
lam_thumbnail_key(key) == Prefix \o splitext(key) \o Suffix

\* {'statusCode': 200, 'body': json.dumps('Thumbnails generated successfully!')}
lam_success_response ==
  [statusCode |-> 200,
   body |-> [type |-> "string", key |-> "", records_processed |-> 0]]

\* {'statusCode': 500, 'body': json.dumps(f'Error: {str(e)}')}
lam_error_response ==
  [statusCode |-> 500,
   body |-> [type |-> "string", key |-> "", records_processed |-> 0]]

\* the platform calls lambda_handler(event, context)
LamInvoke(e) ==
  /\ pc = "idle"
  /\ run < MaxRuns
  /\ event' = e
  /\ pc' = "lam_start"
  /\ run' = run + 1
  /\ UNCHANGED <<idx, trace, written, response, dest, prev, kin, kout, source, image>>

\* for record in event['Records']: the list is looked up
LamIterStart ==
  /\ pc = "lam_start"
  /\ LET ok == lam_Records(event).ok
     IN  /\ trace' = Append(trace, Step("records", 0, "", ok))
         /\ pc' = LamAfter("records", ok, "lam_loop")
  /\ UNCHANGED <<event, idx, written, response, dest, run, prev, kin, kout, source, image>>

\* the next record is taken and its bucket and key are read
LamNextRecord ==
  /\ pc = "lam_loop"
  /\ idx < Len(event.Records)
  /\ idx' = idx + 1
  /\ LET ok == has_fields(event.Records[idx + 1])
     IN  /\ trace' = Append(trace, Step("fields", idx + 1, "", ok))
         /\ pc' = LamAfter("fields", ok, "lam_get_object")
  /\ UNCHANGED <<event, written, response, dest, run, prev, kin, kout, source, image>>

\* s3_client.get_object(Bucket=bucket, Key=key) and the read
LamGetObject ==
  /\ pc = "lam_get_object"
  /\ \E ok \in BOOLEAN :
       /\ trace' = Append(trace, Step("get_object", idx, "", ok))
       /\ pc' = LamAfter("get_object", ok, "lam_transform")
  /\ UNCHANGED <<event, idx, written, response, dest, run, prev, kin, kout, source, image>>

\* Image.open, image.thumbnail and image.save
LamTransform ==
  /\ pc = "lam_transform"
  /\ \E ok \in BOOLEAN :
       /\ trace' = Append(trace, Step("transform", idx, "", ok))
       /\ pc' = LamAfter("transform", ok, "lam_put_object")
  /\ UNCHANGED <<event, idx, written, response, dest, run, prev, kin, kout, source, image>>

\* the key is derived and s3_client.put_object writes the thumbnail
LamPutObject ==
  /\ pc = "lam_put_object"
  /\ LET object_key == event.Records[idx].key
         key == lam_thumbnail_key(object_key)
     IN  \E ok \in BOOLEAN :
           /\ trace' = Append(trace, Step("put_object", idx, "", ok))
           /\ pc' = LamAfter("put_object", ok, "lam_publish_success")
           /\ written' = IF ok THEN written \cup {key} ELSE written
           /\ dest' = IF ok
                      THEN [k \in DOMAIN dest \cup {key} |->
                              IF k = key THEN object_key ELSE dest[k]]
                      ELSE dest
  /\ UNCHANGED <<event, idx, response, run, prev, kin, kout, source, image>>

\* sns_client.publish of the success message; then the next record
LamPublishSuccess ==
  /\ pc = "lam_publish_success"
  /\ \E ok \in BOOLEAN :
       /\ trace' = Append(trace, Step("publish", idx, "success", ok))
       /\ pc' = LamAfter("publish_success", ok, "lam_loop")
  /\ UNCHANGED <<event, idx, written, response, dest, run, prev, kin, kout, source, image>>

\* the loop is over: return {'statusCode': 200, ...}
LamReturn ==
  /\ pc = "lam_loop"
  /\ idx = Len(event.Records)
  /\ response' = lam_success_response
  /\ pc' = "done"
  /\ UNCHANGED <<event, idx, trace, written, dest, run, prev, kin, kout, source, image>>

\* except Exception as e: sns_client.publish of the error, with no try
LamPublishError ==
  /\ pc = "lam_except"
  /\ \E ok \in BOOLEAN :
       /\ trace' = Append(trace, Step("publish", 0, "error", ok))
       /\ pc' = LamAfter("publish_error", ok, "lam_respond500")
  /\ UNCHANGED <<event, idx, written, response, dest, run, prev, kin, kout, source, image>>

\* return {'statusCode': 500, ...}
LamErrorResponse ==
  /\ pc = "lam_respond500"
  /\ response' = lam_error_response
  /\ pc' = "done"
  /\ UNCHANGED <<event, idx, trace, written, dest, run, prev, kin, kout, source, image>>

\* the platform delivers the same event again after the handler ended
LamRedeliver ==
  /\ pc \in {"done", "escaped"}
  /\ run < MaxRuns
  /\ prev' = [valid |-> TRUE, callsOk |-> CallsOk,
              written |-> written, keys |-> DOMAIN dest]
  /\ pc' = "lam_start"
  /\ run' = run + 1
  /\ idx' = 0
  /\ trace' = <<>>
  /\ written' = {}
  /\ response' = NoResponse
  /\ UNCHANGED <<event, dest, kin, kout, source, image>>

LamNext ==
  \/ \E e \in Events : LamInvoke(e)
  \/ LamIterStart
  \/ LamNextRecord
  \/ LamGetObject
  \/ LamTransform
  \/ LamPutObject
  \/ LamPublishSuccess
  \/ LamReturn
  \/ LamPublishError
  \/ LamErrorResponse
  \/ LamRedeliver

LamSpec == Init /\ [][LamNext]_vars

\* the invocation is over: it returned, or its exception left the handler
Ended == pc \in {"done", "escaped"}

(***************************************************************************)
(* C17: every invocation of the handler of lamcode.py returns a response   *)
(* with status 200 or 500, and no exception leaves the handler, a failing  *)
(* publish of the error notification included.                             *)
(***************************************************************************)
C17_LamAlwaysReturns ==
  /\ pc # "escaped"
  /\ Ended => response.statusCode \in {200, 500}

(***************************************************************************)
(* C18: in the handler of lamcode.py the first failure in a record ends    *)
(* the loop: no step is taken for a later record, exactly one error        *)
(* notification publish is attempted, and the status is 500; status 200 is *)
(* returned only when every record was stored and its success notification *)
(* published.                                                              *)
(***************************************************************************)
ErrorAttempts == Cardinality(PublishAttempts(0, "error"))

C18_LamFirstFailureEndsLoop ==
  Ended =>
    /\ \A i \in AllRecords :
         Failed(i) =>
           /\ \A n \in Steps : trace[n].rec <= i
           /\ ErrorAttempts = 1
           /\ response.statusCode = 500
    /\ response.statusCode = 200 =>
         /\ ErrorAttempts = 0
         /\ \A i \in AllRecords : Success(i)

(***************************************************************************)
(* C19: when every call of an invocation succeeds and its two records have *)
(* different source keys with the same base name (final component without  *)
(* extension), both are written to one destination key, which afterwards   *)
(* holds the thumbnail of the second record, and a success notification    *)
(* was published for both.                                                 *)
(***************************************************************************)
BaseName(k) == StripExtension(FinalComponent(k))

SameBasePair ==
  /\ event.kind = "records"
  /\ Len(event.Records) = 2
  /\ \A i \in 1..2 : event.Records[i].kind = "ok"
  /\ event.Records[1].key # event.Records[2].key
  /\ BaseName(event.Records[1].key) = BaseName(event.Records[2].key)

C19_LastWriterWins ==
  (Done /\ CallsOk /\ SameBasePair) =>
    /\ Cardinality(written) = 1
    /\ \A key \in written :
         /\ key \in DOMAIN dest
         /\ dest[key] = event.Records[2].key
    /\ Published(1, "success")
    /\ Published(2, "success")

C19_Witness ==
  /\ Done /\ CallsOk /\ SameBasePair
  /\ event.Records[1].key = <<"a","/","p",".","x">>
  /\ event.Records[2].key = <<"b","/","p",".","y">>
  /\ DOMAIN dest = written
  /\ \A key \in written : dest[key] = <<"b","/","p",".","y">>

=============================================================================
